---- MODULE Spec2Model ----
(***************************************************************************)
(* Model of the cooperation schemes of anntools (anntools/cooperation.py). *)
(* The object space is a dictionary owned by the caller; a Cooperation     *)
(* instance is a stateless proxy {space, key, classfilter [, storekey]}    *)
(* whose add / remove / iter read and mutate the entry of its key.         *)
(*                                                                         *)
(* A Python dictionary is modelled as a total function whose absent keys   *)
(* map to Absent ("key in space" is Has).  A Python value is a record      *)
(* tagged with its type: an instance of a user class ("obj"), a tuple, a   *)
(* list or a dict.  Exceptions are the "out" field of an operation's       *)
(* result; the "space" field is the object space as the call left it,      *)
(* partial mutations included.                                             *)
(***************************************************************************)
EXTENDS Integers, Sequences, FiniteSets, TLC

\* scheme: the cooperation scheme the tools of this behaviour use.
\* space:  the object space (the annotation dictionary).
\* last:   the last call: its handle, its argument, how it ended and the
\*         object space it started from.
\* run:    the objects added to the bound key by successful add(object)
\*         calls since the key was last absent, while no other mutating
\*         call was made in between (valid).
\* only:   the classes the class filters of the handles of this behaviour
\*         are drawn from, or {} when the handles are built with any of
\*         the filters.
\* handle: the one Cooperation instance a tool keeps and rebinds to key
\*         after key (NoHandle when each call builds its handle).
VARIABLES scheme, space, last, run, only, handle

vars == <<scheme, space, last, run, only, handle>>

(***************************************************************************)
(* Bounds and inputs.                                                      *)
(***************************************************************************)
\* Most objects stored in the whole object space (guards of the add actions).
MaxStored == 3

\* Object space keys (argument names), the key the handles of a behaviour
\* of Spec are bound to, and the DictCooperation storage keys.
Keys == {"n", "m"}
BoundKeys == {"n"}
StoreKeys == {"A", "B"}

\* Instances of user classes: f1 and f2 are two distinct instances of class
\* F, g1 is an instance of class G.
Objs == {"f1", "f2", "g1"}
Class(o) == IF o = "g1" THEN "G" ELSE "F"

\* Class filters: the default (object) and the two user classes.
Filters == {{"object"}, {"F"}, {"G"}}

Schemes == {"No", "Tuple", "List", "Dict"}

(***************************************************************************)
(* Python values.                                                          *)
(***************************************************************************)
Absent == [t |-> "absent", id |-> "", items |-> <<>>]
Obj(o) == [t |-> "obj", id |-> o, items |-> <<>>]
Tup(s) == [t |-> "tuple", id |-> "", items |-> s]
Lst(s) == [t |-> "list", id |-> "", items |-> s]
\* A dict used as storage object: one slot per storekey, in the order of
\* SlotOf, holding Absent when the storekey is not a key of the dict.
Dct(m) == [t |-> "dict", id |-> "", items |-> m]
SlotOf(storekey) == IF storekey = "A" THEN 1 ELSE 2
EmptySlots == <<Absent, Absent>>

Atoms == {Obj(o) : o \in Objs}

\* isinstance(v, classfilter): every value is an instance of object; tuples,
\* lists and dicts are instances of no user class.
IsInstance(v, cf) == "object" \in cf \/ (v.t = "obj" /\ Class(v.id) \in cf)

\* a is b
Is(a, b) == a.t = "obj" /\ b.t = "obj" /\ a.id = b.id

\* key in space, space[key] = v, del space[key]
Has(sp, key) == sp[key].t # "absent"
Put(sp, key, v) == [sp EXCEPT ![key] = v]
\* Mutant: deleting one key empties the whole object space.
Del_Clears(sp, key) == [k \in Keys |-> Absent]

Del(sp, key) == [sp EXCEPT ![key] = Absent]

EmptySpace == [k \in Keys |-> Absent]

\* An operation's result: the object space after the call and how it ended.
Ok(sp) == [space |-> sp, out |-> "ok"]
Raise(sp, exc) == [space |-> sp, out |-> exc]

\* Sequence helpers.
RemoveAt(s, i) == SubSeq(s, 1, i - 1) \o SubSeq(s, i + 1, Len(s))

RECURSIVE SelectIdx(_, _, _)
\* [i for i, o in enumerate(storage) if o is obj], 1-based, from position i on.
SelectIdx(s, obj, i) ==
  IF i > Len(s) THEN <<>>
  ELSE IF Is(s[i], obj) THEN <<i>> \o SelectIdx(s, obj, i + 1)
  ELSE SelectIdx(s, obj, i + 1)

RECURSIVE KeepFitting_StopsAtMisfit(_, _)
\* Mutant: the iteration ends at the first element that does not fit.
KeepFitting_StopsAtMisfit(s, cf) ==
  IF s = <<>> \/ ~IsInstance(Head(s), cf) THEN <<>>
  ELSE <<Head(s)>> \o KeepFitting_StopsAtMisfit(Tail(s), cf)

RECURSIVE KeepFitting(_, _)
\* The elements of s that fit the class filter, in order.
KeepFitting(s, cf) ==
  IF s = <<>> THEN <<>>
  ELSE IF IsInstance(Head(s), cf) THEN <<Head(s)>> \o KeepFitting(Tail(s), cf)
  ELSE KeepFitting(Tail(s), cf)

(***************************************************************************)
(* NoCooperation                                                           *)
(***************************************************************************)
NoCooperation_iter(sp, key, cf) ==
  IF Has(sp, key) /\ IsInstance(sp[key], cf) THEN <<sp[key]>> ELSE <<>>

\* Mutant: stores the object whether or not the key is occupied.
NoCooperation_add_Overwrites(sp, key, cf, obj) ==
  IF ~IsInstance(obj, cf) THEN Raise(sp, "ValueError")
  ELSE Ok(Put(sp, key, obj))

\* Mutant: stores the object without testing it against the class filter.
NoCooperation_add_NoFilterCheck(sp, key, cf, obj) ==
  IF ~Has(sp, key) THEN Ok(Put(sp, key, obj))
  ELSE Raise(sp, "NoCooperationError")

NoCooperation_add(sp, key, cf, obj) ==
  IF ~IsInstance(obj, cf) THEN Raise(sp, "ValueError")
  ELSE IF ~Has(sp, key) THEN Ok(Put(sp, key, obj))
  ELSE Raise(sp, "NoCooperationError")

NoCooperation_remove(sp, key, cf, obj) ==
  IF ~IsInstance(obj, cf) THEN Raise(sp, "ValueError")
  ELSE IF Has(sp, key) /\ Is(sp[key], obj) THEN Ok(Del(sp, key))
  ELSE Ok(sp)

(***************************************************************************)
(* TupleCooperation                                                        *)
(***************************************************************************)
TupleCooperation_iter(sp, key, cf) ==
  IF ~Has(sp, key) THEN <<>>
  ELSE IF sp[key].t = "tuple" THEN KeepFitting(sp[key].items, cf)
  ELSE IF IsInstance(sp[key], cf) THEN <<sp[key]>>
  ELSE <<>>

\* Mutant: puts the new object in front of the stored tuple.
TupleStore_Prepends(sp, key, obj) ==
  IF Has(sp, key)
  THEN IF sp[key].t = "tuple"
       THEN Put(sp, key, Tup(<<obj>> \o sp[key].items))
       ELSE Put(sp, key, Tup(<<sp[key], obj>>))
  ELSE Put(sp, key, obj)

\* Mutant: an object that is already stored is not stored again.
TupleStore_Unique(sp, key, obj) ==
  IF Has(sp, key)
  THEN IF sp[key].t = "tuple"
       THEN IF \E i \in DOMAIN sp[key].items : Is(sp[key].items[i], obj)
            THEN sp
            ELSE Put(sp, key, Tup(sp[key].items \o <<obj>>))
       ELSE IF Is(sp[key], obj) THEN sp
       ELSE Put(sp, key, Tup(<<sp[key], obj>>))
  ELSE Put(sp, key, obj)

\* The storing branch of add (lines 263-272), obj fitting and no tuple.
TupleStore(sp, key, obj) ==
  IF Has(sp, key)
  THEN IF sp[key].t = "tuple"
       THEN Put(sp, key, Tup(sp[key].items \o <<obj>>))
       ELSE Put(sp, key, Tup(<<sp[key], obj>>))
  ELSE Put(sp, key, obj)

RECURSIVE TupleCooperation_add(_, _, _, _)
RECURSIVE TupleAddEach(_, _, _, _)
\* Mutant: adds the elements of the collection last to first.
RECURSIVE TupleAddEach_Reversed(_, _, _, _)
TupleAddEach_Reversed(sp, key, cf, objs) ==
  IF objs = <<>> THEN Ok(sp)
  ELSE LET r == TupleAddEach_Reversed(sp, key, cf, Tail(objs))
       IN IF r.out # "ok" THEN r
          ELSE TupleCooperation_add(r.space, key, cf, Head(objs))

\* for o in obj: self.add(o) -- an exception ends the loop and propagates.
TupleAddEach(sp, key, cf, objs) ==
  IF objs = <<>> THEN Ok(sp)
  ELSE LET r == TupleCooperation_add(sp, key, cf, Head(objs))
       IN IF r.out # "ok" THEN r ELSE TupleAddEach(r.space, key, cf, Tail(objs))

\* Mutant: a tuple is stored as one object instead of being flattened.
TupleCooperation_add_NoFlatten(sp, key, cf, obj) ==
  IF ~IsInstance(obj, cf) THEN Raise(sp, "ValueError")
  ELSE Ok(TupleStore(sp, key, obj))

TupleCooperation_add(sp, key, cf, obj) ==
  IF obj.t = "tuple" THEN TupleAddEach(sp, key, cf, obj.items)
  ELSE IF ~IsInstance(obj, cf) THEN Raise(sp, "ValueError")
  ELSE Ok(TupleStore(sp, key, obj))

\* filtered=[a for a in storage if a is not obj]
TupleFiltered(storage, obj) == SelectSeq(storage, LAMBDA a : ~Is(a, obj))

\* The removing branch of remove (lines 286-301), obj fitting and no tuple.
TupleUnstore(sp, key, obj) ==
  IF ~Has(sp, key) THEN sp
  ELSE IF sp[key].t = "tuple"
  THEN LET filtered == TupleFiltered(sp[key].items, obj)
       IN IF Len(filtered) < Len(sp[key].items)
          THEN IF filtered = <<>> THEN Del(sp, key)
               ELSE IF Len(filtered) < 2 THEN Put(sp, key, filtered[1])
               ELSE Put(sp, key, Tup(filtered))
          ELSE sp
  ELSE IF Is(sp[key], obj) THEN Del(sp, key)
  ELSE sp

RECURSIVE TupleCooperation_remove(_, _, _, _)
RECURSIVE TupleRemoveEach(_, _, _, _)
TupleRemoveEach(sp, key, cf, objs) ==
  IF objs = <<>> THEN Ok(sp)
  ELSE LET r == TupleCooperation_remove(sp, key, cf, Head(objs))
       IN IF r.out # "ok" THEN r ELSE TupleRemoveEach(r.space, key, cf, Tail(objs))

TupleCooperation_remove(sp, key, cf, obj) ==
  IF obj.t = "tuple" THEN TupleRemoveEach(sp, key, cf, obj.items)
  ELSE IF ~IsInstance(obj, cf) THEN Raise(sp, "ValueError")
  ELSE Ok(TupleUnstore(sp, key, obj))

(***************************************************************************)
(* ListCooperation                                                         *)
(***************************************************************************)
ListCooperation_iter(sp, key, cf) ==
  IF ~Has(sp, key) THEN <<>>
  ELSE IF sp[key].t = "list" THEN KeepFitting(sp[key].items, cf)
  ELSE IF IsInstance(sp[key], cf) THEN <<sp[key]>>
  ELSE <<>>

\* Mutant: the list introduced for the second object drops the first.
ListStore_DropsSingle(sp, key, obj) ==
  IF Has(sp, key)
  THEN IF sp[key].t = "list"
       THEN Put(sp, key, Lst(Append(sp[key].items, obj)))
       ELSE Put(sp, key, Lst(<<obj, obj>>))
  ELSE Put(sp, key, obj)

\* The storing branch of add (lines 334-343), obj fitting and no list.
ListStore(sp, key, obj) ==
  IF Has(sp, key)
  THEN IF sp[key].t = "list"
       THEN Put(sp, key, Lst(Append(sp[key].items, obj)))
       ELSE Put(sp, key, Lst(<<sp[key], obj>>))
  ELSE Put(sp, key, obj)

RECURSIVE ListCooperation_add(_, _, _, _)
RECURSIVE ListAddEach(_, _, _, _)
ListAddEach(sp, key, cf, objs) ==
  IF objs = <<>> THEN Ok(sp)
  ELSE LET r == ListCooperation_add(sp, key, cf, Head(objs))
       IN IF r.out # "ok" THEN r ELSE ListAddEach(r.space, key, cf, Tail(objs))

ListCooperation_add(sp, key, cf, obj) ==
  IF obj.t = "list" THEN ListAddEach(sp, key, cf, obj.items)
  ELSE IF ~IsInstance(obj, cf) THEN Raise(sp, "ValueError")
  ELSE Ok(ListStore(sp, key, obj))

RECURSIVE ListDelLoop(_, _)
\* for i in idx: del storage[i] -- idx was computed before the first
\* deletion and the list shrinks under it; del storage[i] with i past the
\* end raises IndexError and leaves the list as mutated so far.
ListDelLoop(storage, idx) ==
  IF idx = <<>> THEN [items |-> storage, out |-> "ok"]
  ELSE IF Head(idx) > Len(storage) THEN [items |-> storage, out |-> "IndexError"]
  ELSE ListDelLoop(RemoveAt(storage, Head(idx)), Tail(idx))

\* Mutant: a list left with one object is not replaced by that object.
ListUnstore_NoDemote(sp, key, obj) ==
  IF ~Has(sp, key) THEN Ok(sp)
  ELSE IF sp[key].t = "list"
  THEN LET d == ListDelLoop(sp[key].items, SelectIdx(sp[key].items, obj, 1))
       IN IF d.out # "ok" THEN Raise(Put(sp, key, Lst(d.items)), d.out)
          ELSE IF d.items = <<>> THEN Ok(Del(sp, key))
          ELSE Ok(Put(sp, key, Lst(d.items)))
  ELSE IF Is(sp[key], obj) THEN Ok(Del(sp, key))
  ELSE Ok(sp)

\* The removing branch of remove (lines 357-371), obj fitting and no list.
\* The list is mutated in place, so the object space holds the shrunk list
\* also when the call ends in IndexError.
ListUnstore(sp, key, obj) ==
  IF ~Has(sp, key) THEN Ok(sp)
  ELSE IF sp[key].t = "list"
  THEN LET d == ListDelLoop(sp[key].items, SelectIdx(sp[key].items, obj, 1))
       IN IF d.out # "ok" THEN Raise(Put(sp, key, Lst(d.items)), d.out)
          ELSE IF d.items = <<>> THEN Ok(Del(sp, key))
          ELSE IF Len(d.items) < 2 THEN Ok(Put(sp, key, d.items[1]))
          ELSE Ok(Put(sp, key, Lst(d.items)))
  ELSE IF Is(sp[key], obj) THEN Ok(Del(sp, key))
  ELSE Ok(sp)

RECURSIVE ListCooperation_remove(_, _, _, _)
RECURSIVE ListRemoveEach(_, _, _, _)
ListRemoveEach(sp, key, cf, objs) ==
  IF objs = <<>> THEN Ok(sp)
  ELSE LET r == ListCooperation_remove(sp, key, cf, Head(objs))
       IN IF r.out # "ok" THEN r ELSE ListRemoveEach(r.space, key, cf, Tail(objs))

ListCooperation_remove(sp, key, cf, obj) ==
  IF obj.t = "list" THEN ListRemoveEach(sp, key, cf, obj.items)
  ELSE IF ~IsInstance(obj, cf) THEN Raise(sp, "ValueError")
  ELSE ListUnstore(sp, key, obj)

(***************************************************************************)
(* DictCooperation                                                         *)
(***************************************************************************)
\* storekey in storage, storage[storekey], not storage
DictHas(storage, storekey) == storage.items[SlotOf(storekey)].t # "absent"
DictGet(storage, storekey) == storage.items[SlotOf(storekey)]
DictSet(storage, storekey, v) ==
  Dct([storage.items EXCEPT ![SlotOf(storekey)] = v])
DictEmpty(storage) == \A i \in DOMAIN storage.items : storage.items[i].t = "absent"

\* How iter ends: "self.storekey in storage" raises TypeError when the
\* stored value is an instance of a user class (no container); on a tuple or
\* a list it compares the storekey with the elements and finds none.
DictCooperation_iter_out(sp, key) ==
  IF Has(sp, key) /\ sp[key].t = "obj" THEN "TypeError" ELSE "ok"

\* The objects iter yields: the object stored under the storekey, if any.
DictCooperation_iter(sp, key, storekey, cf) ==
  IF Has(sp, key) /\ sp[key].t = "dict" /\ DictHas(sp[key], storekey)
     /\ IsInstance(DictGet(sp[key], storekey), cf)
  THEN <<DictGet(sp[key], storekey)>>
  ELSE <<>>

\* Mutant: stores under the storekey without looking for an existing entry.
DictCooperation_add_Overwrites(sp, key, storekey, cf, obj) ==
  IF ~IsInstance(obj, cf) THEN Raise(sp, "ValueError")
  ELSE IF Has(sp, key)
  THEN IF sp[key].t # "dict" THEN Raise(sp, "DictCooperationFailed")
       ELSE Ok(Put(sp, key, DictSet(sp[key], storekey, obj)))
  ELSE Ok(Put(sp, key, DictSet(Dct(EmptySlots), storekey, obj)))

\* Mutant: a stored value that is no dict is replaced by a fresh dict.
DictCooperation_add_ReplacesForeign(sp, key, storekey, cf, obj) ==
  IF ~IsInstance(obj, cf) THEN Raise(sp, "ValueError")
  ELSE IF Has(sp, key) /\ sp[key].t = "dict"
  THEN IF DictHas(sp[key], storekey) THEN Raise(sp, "DictCooperationError")
       ELSE Ok(Put(sp, key, DictSet(sp[key], storekey, obj)))
  ELSE Ok(Put(sp, key, DictSet(Dct(EmptySlots), storekey, obj)))

DictCooperation_add(sp, key, storekey, cf, obj) ==
  IF ~IsInstance(obj, cf) THEN Raise(sp, "ValueError")
  ELSE IF Has(sp, key)
  THEN IF sp[key].t # "dict" THEN Raise(sp, "DictCooperationFailed")
       ELSE IF DictHas(sp[key], storekey) THEN Raise(sp, "DictCooperationError")
       ELSE Ok(Put(sp, key, DictSet(sp[key], storekey, obj)))
  ELSE Ok(Put(sp, key, DictSet(Dct(EmptySlots), storekey, obj)))

\* Mutant: the emptied dict stays in the object space.
DictCooperation_remove_KeepsEmptyDict(sp, key, storekey, cf, obj) ==
  IF ~IsInstance(obj, cf) THEN Raise(sp, "ValueError")
  ELSE IF Has(sp, key)
  THEN IF sp[key].t # "dict" THEN Raise(sp, "DictCooperationFailed")
       ELSE IF DictHas(sp[key], storekey)
       THEN Ok(Put(sp, key, DictSet(sp[key], storekey, Absent)))
       ELSE Ok(sp)
  ELSE Ok(sp)

\* Mutant: deletes the key, the entries of the other storekeys with it.
DictCooperation_remove_DeletesKey(sp, key, storekey, cf, obj) ==
  IF ~IsInstance(obj, cf) THEN Raise(sp, "ValueError")
  ELSE IF Has(sp, key)
  THEN IF sp[key].t # "dict" THEN Raise(sp, "DictCooperationFailed")
       ELSE IF DictHas(sp[key], storekey) THEN Ok(Del(sp, key))
       ELSE Ok(sp)
  ELSE Ok(sp)

\* Mutant: a dict left with one entry is replaced by that entry's object.
DictCooperation_remove_Collapses(sp, key, storekey, cf, obj) ==
  IF ~IsInstance(obj, cf) THEN Raise(sp, "ValueError")
  ELSE IF Has(sp, key)
  THEN IF sp[key].t # "dict" THEN Raise(sp, "DictCooperationFailed")
       ELSE IF DictHas(sp[key], storekey)
       THEN LET storage == DictSet(sp[key], storekey, Absent)
                left == {i \in DOMAIN storage.items : storage.items[i].t # "absent"}
            IN IF left = {} THEN Ok(Del(sp, key))
               ELSE IF Cardinality(left) = 1
               THEN Ok(Put(sp, key, storage.items[CHOOSE i \in left : TRUE]))
               ELSE Ok(Put(sp, key, storage))
       ELSE Ok(sp)
  ELSE Ok(sp)

\* del storage[storekey] is not guarded by "storage[storekey] is obj".
DictCooperation_remove(sp, key, storekey, cf, obj) ==
  IF ~IsInstance(obj, cf) THEN Raise(sp, "ValueError")
  ELSE IF Has(sp, key)
  THEN IF sp[key].t # "dict" THEN Raise(sp, "DictCooperationFailed")
       ELSE IF DictHas(sp[key], storekey)
       THEN LET storage == DictSet(sp[key], storekey, Absent)
            IN IF DictEmpty(storage) THEN Ok(Del(sp, key))
               ELSE Ok(Put(sp, key, storage))
       ELSE Ok(sp)
  ELSE Ok(sp)

(***************************************************************************)
(* The state machine.  One behaviour uses one cooperation scheme, as a     *)
(* tool does; handles are stateless, so each call draws its handle (key,   *)
(* class filter, storekey) together with its argument.                     *)
(***************************************************************************)
\* Arguments of add and remove: an object, or a collection of the scheme's
\* own kind (empty, flat, nested), which the ordered schemes flatten.
Colls(mk(_)) ==
  { mk(<<>>),
    mk(<<Obj("f1"), Obj("f1")>>),
    mk(<<Obj("f1"), Obj("g1")>>),
    mk(<<Obj("g1"), Obj("f2")>>),
    mk(<<Obj("f2"), mk(<<Obj("g1")>>)>>),
    mk(<<mk(<<>>), Obj("f1")>>) }

TupleArgs == Atoms \cup Colls(Tup)
ListArgs == Atoms \cup Colls(Lst)

\* Number of objects a stored value holds, and the object space as a whole.
Count(v) ==
  IF v.t = "absent" THEN 0
  ELSE IF v.t = "obj" THEN 1
  ELSE IF v.t = "dict" THEN Cardinality({i \in DOMAIN v.items : v.items[i].t # "absent"})
  ELSE Len(v.items)

RECURSIVE SumCount(_, _)
SumCount(sp, ks) ==
  IF ks = {} THEN 0
  ELSE LET k == CHOOSE x \in ks : TRUE IN Count(sp[k]) + SumCount(sp, ks \ {k})

Stored(sp) == SumCount(sp, Keys)

\* __iter__ of the behaviour's scheme: the objects it yields and how it ends.
Iter(sp, key, storekey, cf) ==
  CASE scheme = "No" -> NoCooperation_iter(sp, key, cf)
    [] scheme = "Tuple" -> TupleCooperation_iter(sp, key, cf)
    [] scheme = "List" -> ListCooperation_iter(sp, key, cf)
    [] scheme = "Dict" -> DictCooperation_iter(sp, key, storekey, cf)

IterOut(sp, key) ==
  IF scheme = "Dict" THEN DictCooperation_iter_out(sp, key) ELSE "ok"

\* One call op(obj), op add or remove, through a handle of the behaviour's
\* scheme.
SchemeCall(op, sp, key, storekey, cf, obj) ==
  CASE scheme = "No" /\ op = "add" -> NoCooperation_add(sp, key, cf, obj)
    [] scheme = "No" /\ op = "remove" -> NoCooperation_remove(sp, key, cf, obj)
    [] scheme = "Tuple" /\ op = "add" -> TupleCooperation_add(sp, key, cf, obj)
    [] scheme = "Tuple" /\ op = "remove" -> TupleCooperation_remove(sp, key, cf, obj)
    [] scheme = "List" /\ op = "add" -> ListCooperation_add(sp, key, cf, obj)
    [] scheme = "List" /\ op = "remove" -> ListCooperation_remove(sp, key, cf, obj)
    [] scheme = "Dict" /\ op = "add" -> DictCooperation_add(sp, key, storekey, cf, obj)
    [] scheme = "Dict" /\ op = "remove" ->
         DictCooperation_remove(sp, key, storekey, cf, obj)

\* Mutant: counts from one.
Cooperation_len_FromOne(it) == Len(it) + 1

\* __len__: "cnt = 0; for obj in self: cnt += 1; return cnt".
RECURSIVE Cooperation_len(_)
Cooperation_len(it) ==
  IF it = <<>> THEN 0 ELSE 1 + Cooperation_len(Tail(it))

\* Mutant: looks at the first object of the iteration only.
Cooperation_contains_FirstOnly(it, cf, obj) ==
  IsInstance(obj, cf) /\ it # <<>> /\ Is(Head(it), obj)

\* __contains__: iterates only when obj fits the class filter, and returns
\* True at the first object that is obj.
RECURSIVE ContainsLoop(_, _)
ContainsLoop(it, obj) ==
  IF it = <<>> THEN FALSE
  ELSE IF Is(Head(it), obj) THEN TRUE
  ELSE ContainsLoop(Tail(it), obj)

Cooperation_contains(it, cf, obj) ==
  IF IsInstance(obj, cf) THEN ContainsLoop(it, obj) ELSE FALSE

\* The storekeys a handle of the behaviour's scheme can be built with.
HandleStoreKeys == IF scheme = "Dict" THEN StoreKeys ELSE {""}

\* got, num and flag are what iter yielded, len returned and contains
\* returned, when the call was one of these.
NoCall == [op |-> "init", key |-> "", cf |-> {}, storekey |-> "", arg |-> Absent,
           out |-> "ok", pre |-> EmptySpace, got |-> <<>>, num |-> 0,
           flag |-> FALSE]

NewRun == [valid |-> TRUE, objs |-> <<>>]

\* The run of adds after the call op(arg) on key that ended as r.
RunAfter(op, key, arg, r) ==
  IF ~Has(r.space, key) THEN NewRun
  ELSE IF op = "add" /\ arg.t = "obj" /\ r.out = "ok" /\ run.valid
  THEN [run EXCEPT !.objs = Append(run.objs, arg)]
  ELSE IF op = "add" /\ arg.t = "obj" /\ r.out # "ok" /\ r.space = space
  THEN run
  ELSE [valid |-> FALSE, objs |-> <<>>]

NoHandle == [key |-> "", cf |-> {}, storekey |-> ""]

Init ==
  /\ scheme \in Schemes
  /\ space = EmptySpace
  /\ last = NoCall
  /\ run = NewRun
  /\ only = {}
  /\ handle = NoHandle

\* The call op(arg) through the handle (key, cf, storekey) ended as r.
Call(op, key, cf, storekey, arg, r) ==
  /\ only = {} \/ cf \subseteq only
  /\ Stored(r.space) <= MaxStored
  /\ space' = r.space
  /\ last' = [NoCall EXCEPT !.op = op, !.key = key, !.cf = cf,
                            !.storekey = storekey, !.arg = arg,
                            !.out = r.out, !.pre = space]
  /\ run' = RunAfter(op, key, arg, r)
  /\ UNCHANGED <<scheme, only, handle>>

\* The reading call op through the handle (key, cf, storekey) ended as out
\* and gave got / num / flag; the object space is not written.
Read(op, key, cf, storekey, arg, out, got, num, flag) ==
  /\ only = {} \/ cf \subseteq only
  /\ last' = [NoCall EXCEPT !.op = op, !.key = key, !.cf = cf,
                            !.storekey = storekey, !.arg = arg,
                            !.out = out, !.pre = space,
                            !.got = IF out = "ok" THEN got ELSE <<>>,
                            !.num = IF out = "ok" THEN num ELSE 0,
                            !.flag = IF out = "ok" THEN flag ELSE FALSE]
  /\ UNCHANGED <<scheme, space, run, only, handle>>

NoAdd ==
  /\ scheme = "No"
  /\ \E key \in BoundKeys, cf \in Filters, obj \in Atoms :
       Call("add", key, cf, "", obj, NoCooperation_add(space, key, cf, obj))

NoRemove ==
  /\ scheme = "No"
  /\ \E key \in BoundKeys, cf \in Filters, obj \in Atoms :
       Call("remove", key, cf, "", obj, NoCooperation_remove(space, key, cf, obj))

TupleAdd ==
  /\ scheme = "Tuple"
  /\ \E key \in BoundKeys, cf \in Filters, obj \in TupleArgs :
       Call("add", key, cf, "", obj, TupleCooperation_add(space, key, cf, obj))

TupleRemove ==
  /\ scheme = "Tuple"
  /\ \E key \in BoundKeys, cf \in Filters, obj \in TupleArgs :
       Call("remove", key, cf, "", obj, TupleCooperation_remove(space, key, cf, obj))

ListAdd ==
  /\ scheme = "List"
  /\ \E key \in BoundKeys, cf \in Filters, obj \in ListArgs :
       Call("add", key, cf, "", obj, ListCooperation_add(space, key, cf, obj))

ListRemove ==
  /\ scheme = "List"
  /\ \E key \in BoundKeys, cf \in Filters, obj \in ListArgs :
       Call("remove", key, cf, "", obj, ListCooperation_remove(space, key, cf, obj))

DictAdd ==
  /\ scheme = "Dict"
  /\ \E key \in BoundKeys, storekey \in StoreKeys, cf \in Filters, obj \in Atoms :
       Call("add", key, cf, storekey, obj,
            DictCooperation_add(space, key, storekey, cf, obj))

DictRemove ==
  /\ scheme = "Dict"
  /\ \E key \in BoundKeys, storekey \in StoreKeys, cf \in Filters, obj \in Atoms :
       Call("remove", key, cf, storekey, obj,
            DictCooperation_remove(space, key, storekey, cf, obj))

NoIter ==
  /\ scheme = "No"
  /\ \E key \in BoundKeys, cf \in Filters :
       Read("iter", key, cf, "", Absent, "ok",
            NoCooperation_iter(space, key, cf), 0, FALSE)

TupleIter ==
  /\ scheme = "Tuple"
  /\ \E key \in BoundKeys, cf \in Filters :
       Read("iter", key, cf, "", Absent, "ok",
            TupleCooperation_iter(space, key, cf), 0, FALSE)

ListIter ==
  /\ scheme = "List"
  /\ \E key \in BoundKeys, cf \in Filters :
       Read("iter", key, cf, "", Absent, "ok",
            ListCooperation_iter(space, key, cf), 0, FALSE)

DictIter ==
  /\ scheme = "Dict"
  /\ \E key \in BoundKeys, storekey \in StoreKeys, cf \in Filters :
       Read("iter", key, cf, storekey, Absent,
            DictCooperation_iter_out(space, key),
            DictCooperation_iter(space, key, storekey, cf), 0, FALSE)

\* len(handle) and "obj in handle": the base class methods, which every
\* scheme inherits and which run the scheme's __iter__.
CoopLen ==
  \E key \in BoundKeys, storekey \in HandleStoreKeys, cf \in Filters :
    Read("len", key, cf, storekey, Absent, IterOut(space, key), <<>>,
         Cooperation_len(Iter(space, key, storekey, cf)), FALSE)

CoopContains ==
  \E key \in BoundKeys, storekey \in HandleStoreKeys, cf \in Filters,
     obj \in Atoms :
    Read("contains", key, cf, storekey, obj,
         IF IsInstance(obj, cf) THEN IterOut(space, key) ELSE "ok", <<>>, 0,
         Cooperation_contains(Iter(space, key, storekey, cf), cf, obj))

Next ==
  \/ NoAdd
  \/ NoRemove
  \/ TupleAdd
  \/ TupleRemove
  \/ ListAdd
  \/ ListRemove
  \/ DictAdd
  \/ DictRemove
  \/ NoIter
  \/ TupleIter
  \/ ListIter
  \/ DictIter
  \/ CoopLen
  \/ CoopContains

Spec == Init /\ [][Next]_vars

\* An object space in which another tool, cooperating or not, has already
\* stored a value under the bound key: a bare object, a tuple, a list, a dict.
ForeignValues ==
  { Obj("g1"),
    Tup(<<Obj("f1"), Obj("g1")>>),
    Lst(<<Obj("g1"), Obj("f1")>>),
    Dct(<<Obj("f1"), Absent>>) }

InitShared ==
  /\ scheme \in Schemes
  /\ space \in {Put(EmptySpace, "n", v) : v \in {Absent} \cup ForeignValues}
  /\ last = [NoCall EXCEPT !.pre = space]
  /\ run = [valid |-> ~Has(space, "n"), objs |-> <<>>]
  /\ only = {}
  /\ handle = NoHandle

SpecShared == InitShared /\ [][Next]_vars

\* Behaviours whose handles are all built with one class filter, next to the
\* behaviours of Spec.
InitFiltered ==
  /\ scheme \in Schemes
  /\ space = EmptySpace
  /\ last = NoCall
  /\ run = NewRun
  /\ only \in {{}} \cup Filters
  /\ handle = NoHandle

SpecFiltered == InitFiltered /\ [][Next]_vars

\* Behaviours of a tool that builds one handle and uses it for key after
\* key, assigning its key field between the calls ("cooperation.key=name").
InitReuse ==
  /\ scheme \in Schemes
  /\ space = EmptySpace
  /\ last = NoCall
  /\ run = NewRun
  /\ only = {}
  /\ handle \in {[key |-> k, cf |-> cf, storekey |-> sk] :
                   k \in Keys, cf \in Filters, sk \in HandleStoreKeys}

SetKey ==
  /\ \E k \in Keys \ {handle.key} : handle' = [handle EXCEPT !.key = k]
  /\ UNCHANGED <<scheme, space, last, run, only>>

HandleAdd ==
  \E obj \in Atoms :
    Call("add", handle.key, handle.cf, handle.storekey, obj,
         SchemeCall("add", space, handle.key, handle.storekey, handle.cf, obj))

HandleRemove ==
  \E obj \in Atoms :
    Call("remove", handle.key, handle.cf, handle.storekey, obj,
         SchemeCall("remove", space, handle.key, handle.storekey, handle.cf, obj))

HandleIter ==
  Read("iter", handle.key, handle.cf, handle.storekey, Absent,
       IterOut(space, handle.key),
       Iter(space, handle.key, handle.storekey, handle.cf), 0, FALSE)

NextReuse ==
  \/ SetKey
  \/ HandleAdd
  \/ HandleRemove
  \/ HandleIter

SpecReuse == InitReuse /\ [][NextReuse]_vars

\* Behaviours of two independent callers whose handles have the disjoint
\* class filters F and G.
DisjointClasses == {"F", "G"}

InitDisjoint ==
  /\ scheme \in Schemes
  /\ space = EmptySpace
  /\ last = NoCall
  /\ run = NewRun
  /\ only = DisjointClasses
  /\ handle = NoHandle

SpecDisjoint == InitDisjoint /\ [][Next]_vars

(***************************************************************************)
(* Helpers of the properties.                                              *)
(***************************************************************************)
Ordered == scheme \in {"Tuple", "List"}

\* The stored value is the storage sequence of the behaviour's scheme.
IsSeq(v) ==
  (scheme = "Tuple" /\ v.t = "tuple") \/ (scheme = "List" /\ v.t = "list")

\* The last call was op(arg) with arg an object that fits the handle's filter.
LastFitting(op) ==
  last.op = op /\ last.arg.t = "obj" /\ IsInstance(last.arg, last.cf)

(***************************************************************************)
(* C1  Ordered schemes, FIFO: starting from an absent key, after n >= 2    *)
(* successful add(o1), ..., add(on) of non-collection objects with no      *)
(* remove in between, a handle on that key yields o1, ..., on in that      *)
(* order: all of them when its class filter fits them all, and in general  *)
(* those that fit its filter, duplicates included.                         *)
(***************************************************************************)
C1_FifoOrder ==
  (Ordered /\ run.valid /\ Len(run.objs) >= 2) =>
    \A key \in BoundKeys, cf \in Filters :
      /\ Iter(space, key, "", cf) = KeepFitting(run.objs, cf)
      /\ (\A i \in DOMAIN run.objs : IsInstance(run.objs[i], cf))
           => Iter(space, key, "", cf) = run.objs

\* Three adds, one object twice, objects of both classes.
C1_Witness ==
  /\ Ordered
  /\ run.valid
  /\ run.objs = <<Obj("f1"), Obj("g1"), Obj("f1")>>
  /\ Iter(space, "n", "", {"object"}) = run.objs

(***************************************************************************)
(* C2  Round trip, every scheme: when the key is absent, add(o) of an      *)
(* object followed by remove(o) through a handle on the same key (and      *)
(* storekey) whose filter o fits leaves the key absent again and the       *)
(* object space exactly as it was before the add.                          *)
(***************************************************************************)
C2_RoundTripStep ==
  ( /\ last.op = "add" /\ last.out = "ok" /\ last.arg.t = "obj"
    /\ ~Has(last.pre, last.key)
    /\ last'.op = "remove" /\ last'.arg = last.arg
    /\ last'.key = last.key /\ last'.storekey = last.storekey
    /\ IsInstance(last.arg, last'.cf) )
  => ( /\ last'.out = "ok"
       /\ ~Has(space', last.key)
       /\ space' = last.pre )

C2_AddRemoveRoundTrip == [][C2_RoundTripStep]_vars

\* remove(o) has run on the object space that add(o) on an absent key
\* leaves (the key holds o and nothing else) and the key is absent again.
C2_Witness ==
  /\ LastFitting("remove")
  /\ last.out = "ok"
  /\ Count(last.pre[last.key]) = 1
  /\ Iter(last.pre, last.key, last.storekey, last.cf) = <<last.arg>>
  /\ ~Has(space, last.key)

(***************************************************************************)
(* C3  Ordered schemes: in every reachable state the value stored under a  *)
(* key is never a tuple or list with 0 or 1 elements.                      *)
(***************************************************************************)
C3_NoShortSequence ==
  Ordered => \A key \in Keys : IsSeq(space[key]) => Len(space[key].items) >= 2

(***************************************************************************)
(* C4  Ordered schemes, shape collapse: when the key holds a sequence of   *)
(* exactly two distinct objects, remove of either one (fitting the         *)
(* filter) leaves the key holding the other one as a bare object, and a    *)
(* following remove of that remaining object deletes the key.              *)
(***************************************************************************)
\* The last call removed one of the two distinct objects of a 2-sequence.
C4_RemovedOneOfTwo ==
  /\ Ordered
  /\ LastFitting("remove")
  /\ IsSeq(last.pre[last.key])
  /\ Len(last.pre[last.key].items) = 2
  /\ last.pre[last.key].items[1].t = "obj"
  /\ last.pre[last.key].items[2].t = "obj"
  /\ ~Is(last.pre[last.key].items[1], last.pre[last.key].items[2])
  /\ \E i \in 1..2 : Is(last.pre[last.key].items[i], last.arg)

C4_Remaining ==
  IF Is(last.pre[last.key].items[1], last.arg)
  THEN last.pre[last.key].items[2]
  ELSE last.pre[last.key].items[1]

C4_Demoted ==
  C4_RemovedOneOfTwo =>
    /\ last.out = "ok"
    /\ space[last.key].t = "obj"
    /\ space = Put(last.pre, last.key, C4_Remaining)

C4_ThenDeleted ==
  ( /\ C4_RemovedOneOfTwo
    /\ last'.op = "remove" /\ last'.key = last.key
    /\ last'.arg = C4_Remaining
    /\ IsInstance(last'.arg, last'.cf) )
  => ( last'.out = "ok" /\ ~Has(space', last.key) )

C4_ShapeCollapse == [](C4_Demoted) /\ [][C4_ThenDeleted]_vars

C4_Witness ==
  /\ C4_RemovedOneOfTwo
  /\ scheme = "List"
  /\ last.pre["n"] = Lst(<<Obj("f1"), Obj("f2")>>)
  /\ space["n"] = Obj("f2")

(***************************************************************************)
(* C5  Ordered schemes: remove(obj) of a fitting object from a stored      *)
(* sequence leaves the sequence with all occurrences identical to obj      *)
(* deleted and every other element kept in order; the key becomes absent   *)
(* with 0 elements left, holds the bare element with 1 left and a          *)
(* sequence with 2 or more left.                                           *)
(***************************************************************************)
C5_Rest == SelectSeq(last.pre[last.key].items, LAMBDA a : ~Is(a, last.arg))

C5_RemoveAllOccurrences ==
  (Ordered /\ LastFitting("remove") /\ IsSeq(last.pre[last.key])) =>
    space = IF C5_Rest = <<>> THEN Del(last.pre, last.key)
            ELSE IF Len(C5_Rest) = 1 THEN Put(last.pre, last.key, C5_Rest[1])
            ELSE Put(last.pre, last.key,
                     [last.pre[last.key] EXCEPT !.items = C5_Rest])

(***************************************************************************)
(* C6  Every scheme: remove(obj) removes at most the instances of obj      *)
(* itself: every stored object that is not identical to obj and was stored *)
(* under the key (in any position or partition) before the call is still   *)
(* stored, in the same relative order, after the call.                     *)
(***************************************************************************)
IsPrefix(s, t) == Len(s) <= Len(t) /\ SubSeq(t, 1, Len(s)) = s

\* What an ordered scheme finds stored: the elements of its storage
\* sequence, or the one value that is no such sequence.
StoredSeq(v) ==
  IF v.t = "absent" THEN <<>>
  ELSE IF IsSeq(v) THEN v.items
  ELSE <<v>>

\* The object a stored value holds for a storekey, Absent when none.
SlotOr(v, storekey) == IF v.t = "dict" THEN DictGet(v, storekey) ELSE Absent

C6_Others(v) ==
  SelectSeq(StoredSeq(v), LAMBDA a : a.t # "absent" /\ ~Is(a, last.arg))

C6_RemoveOnlyGiven ==
  (last.op = "remove" /\ last.arg.t = "obj") =>
    IF scheme = "Dict"
    THEN \A sk \in StoreKeys :
           LET before == SlotOr(last.pre[last.key], sk)
           IN (before.t # "absent" /\ ~Is(before, last.arg))
                => SlotOr(space[last.key], sk) = before
    ELSE C6_Others(space[last.key]) = C6_Others(last.pre[last.key])

\* Everything stored under the key before the last call is still there:
\* as a prefix of the storage sequence (ordered schemes), entry by entry
\* (a dict under DictCooperation), as the stored value itself otherwise.
StillStored ==
  IF Ordered
  THEN IsPrefix(StoredSeq(last.pre[last.key]), StoredSeq(space[last.key]))
  ELSE IF scheme = "Dict" /\ last.pre[last.key].t = "dict"
  THEN /\ space[last.key].t = "dict"
       /\ \A sk \in StoreKeys :
            DictHas(last.pre[last.key], sk)
              => DictGet(space[last.key], sk) = DictGet(last.pre[last.key], sk)
  ELSE Has(last.pre, last.key) => space[last.key] = last.pre[last.key]

(***************************************************************************)
(* C7  Every scheme: add never replaces an existing stored value.  After   *)
(* any add call every object stored under the key before the call, fitting *)
(* the handle's filter or not and in any partition, is still stored in its *)
(* place; where a fitting object cannot be stored without replacing one    *)
(* the call fails with NoCooperationError or DictCooperationError, and add *)
(* the call fails with NoCooperationError, DictCooperationError or (the    *)
(* stored value is no dict) DictCooperationFailed, and add ends in no      *)
(* other way than success, ValueError or one of these.  Checked on object  *)
(* spaces that may already hold a value stored by another tool.            *)
(***************************************************************************)
C7_AddPreserves ==
  last.op = "add" =>
    /\ StillStored
    /\ (scheme = "No" /\ LastFitting("add") /\ Has(last.pre, last.key))
         => last.out = "NoCooperationError"
    /\ (scheme = "Dict" /\ LastFitting("add") /\ Has(last.pre, last.key))
         => IF last.pre[last.key].t # "dict"
            THEN last.out = "DictCooperationFailed"
            ELSE DictHas(last.pre[last.key], last.storekey)
                   => last.out = "DictCooperationError"
    /\ last.out \in {"ok", "ValueError", "NoCooperationError",
                     "DictCooperationError", "DictCooperationFailed"}

\* A handle filtering on class F added to a key holding a list that some
\* other tool stored and an object of class G.
C7_Witness ==
  /\ scheme = "Tuple"
  /\ last.op = "add" /\ last.out = "ok"
  /\ last.cf = {"F"}
  /\ last.pre["n"] = Tup(<<Lst(<<Obj("g1"), Obj("f1")>>), Obj("g1")>>)
  /\ space["n"] = Tup(<<Lst(<<Obj("g1"), Obj("f1")>>), Obj("g1"), last.arg>>)

(***************************************************************************)
(* C8  NoCooperation: add of a fitting object on a key that is already     *)
(* occupied, by a value fitting the handle's filter or not, raises         *)
(* NoCooperationError and leaves the object space unchanged, still holding *)
(* only the first object.                                                  *)
(***************************************************************************)
C8_NoOverwrite ==
  (scheme = "No" /\ LastFitting("add") /\ Has(last.pre, last.key)) =>
    /\ last.out = "NoCooperationError"
    /\ space = last.pre
    /\ NoCooperation_iter(space, last.key, {"object"}) = <<last.pre[last.key]>>

\* The occupying object, added through a handle filtering on class G, does
\* not fit the filter of the second writer.
C8_Witness ==
  /\ scheme = "No"
  /\ LastFitting("add")
  /\ last.out = "NoCooperationError"
  /\ last.cf = {"F"}
  /\ run.objs = <<Obj("g1")>>
  /\ space["n"] = Obj("g1")

(***************************************************************************)
(* C9  DictCooperation, partition isolation: a call through a handle with  *)
(* storekey A changes neither the object stored under another storekey B   *)
(* of the same key, nor what a B handle yields, nor how an add or remove   *)
(* through a B handle ends; after A.add(x) on an absent key a B handle     *)
(* yields nothing and the A handle yields exactly x.                       *)
(***************************************************************************)
C9_Isolated(B) ==
  /\ SlotOr(space[last.key], B) = SlotOr(last.pre[last.key], B)
  /\ \A cf \in Filters :
       /\ DictCooperation_iter(space, last.key, B, cf)
            = DictCooperation_iter(last.pre, last.key, B, cf)
       /\ \A obj \in Atoms :
            /\ DictCooperation_add(space, last.key, B, cf, obj).out
                 = DictCooperation_add(last.pre, last.key, B, cf, obj).out
            /\ DictCooperation_remove(space, last.key, B, cf, obj).out
                 = DictCooperation_remove(last.pre, last.key, B, cf, obj).out

C9_PartitionIsolation ==
  (scheme = "Dict" /\ last.op \in {"add", "remove"}) =>
    \A B \in StoreKeys \ {last.storekey} :
      /\ C9_Isolated(B)
      /\ (last.op = "add" /\ last.out = "ok" /\ ~Has(last.pre, last.key))
           => /\ \A cf \in Filters :
                   DictCooperation_iter(space, last.key, B, cf) = <<>>
              /\ DictCooperation_iter(space, last.key, last.storekey, last.cf)
                   = <<last.arg>>

\* A removed its object while B's partition was occupied.
C9_Witness ==
  /\ scheme = "Dict"
  /\ last.op = "remove" /\ last.out = "ok" /\ last.storekey = "A"
  /\ last.pre["n"].t = "dict"
  /\ DictHas(last.pre["n"], "A") /\ DictHas(last.pre["n"], "B")
  /\ space["n"] = DictSet(Dct(EmptySlots), "B", DictGet(last.pre["n"], "B"))

(***************************************************************************)
(* C10  DictCooperation: add of a fitting object when the key holds a      *)
(* dict whose entry for the handle's storekey is occupied raises           *)
(* DictCooperationError and leaves the object space unchanged; when the    *)
(* entry is free the object is stored under the storekey and the other     *)
(* entries are kept.                                                       *)
(***************************************************************************)
C10_PartitionOverwrite ==
  ( /\ scheme = "Dict" /\ LastFitting("add")
    /\ Has(last.pre, last.key) /\ last.pre[last.key].t = "dict" ) =>
    IF DictHas(last.pre[last.key], last.storekey)
    THEN last.out = "DictCooperationError" /\ space = last.pre
    ELSE /\ last.out = "ok"
         /\ space[last.key].t = "dict"
         /\ \A sk \in StoreKeys :
              DictGet(space[last.key], sk)
                = IF sk = last.storekey THEN last.arg
                  ELSE DictGet(last.pre[last.key], sk)
         /\ \A key \in Keys \ {last.key} : space[key] = last.pre[key]

\* The rejected add met a dict with both partitions occupied.
C10_Witness ==
  /\ scheme = "Dict"
  /\ LastFitting("add")
  /\ last.out = "DictCooperationError"
  /\ space["n"].t = "dict"
  /\ DictHas(space["n"], "A") /\ DictHas(space["n"], "B")
  /\ ~Is(DictGet(space["n"], last.storekey), last.arg)

(***************************************************************************)
(* C11..C20                                                                *)
(***************************************************************************)
\* The last call was remove(obj), obj fitting, through a DictCooperation
\* handle whose storekey held the only entry of the dict stored under the key.
C11_RemovedLastEntry ==
  /\ scheme = "Dict"
  /\ LastFitting("remove")
  /\ last.pre[last.key].t = "dict"
  /\ DictHas(last.pre[last.key], last.storekey)
  /\ Count(last.pre[last.key]) = 1

\* C11: with DictCooperation handles only, starting from the empty object
\* space, a dict stored under a key always has at least one entry; the
\* remove that deletes the last entry of the dict deletes the key in the
\* same call.
C11_NoEmptyPartitionMap ==
  scheme = "Dict" =>
    /\ \A k \in Keys : space[k].t = "dict" => ~DictEmpty(space[k])
    /\ C11_RemovedLastEntry => (last.out = "ok" /\ ~Has(space, last.key))

C11_Witness == C11_RemovedLastEntry /\ ~Has(space, "n") /\ last.out = "ok"

\* The last call was add(obj) or remove(obj), obj fitting, through a
\* DictCooperation handle whose key held a value that is no dict.
C12_ForeignStorage ==
  /\ scheme = "Dict"
  /\ (LastFitting("add") \/ LastFitting("remove"))
  /\ Has(last.pre, last.key)
  /\ last.pre[last.key].t # "dict"

\* C12: DictCooperation add(obj) and remove(obj), obj fitting the filter, on
\* a key whose stored value is not a dict (a bare object or a sequence of
\* another writer) raise DictCooperationFailed and leave the object space
\* as it was.
C12_ForeignStorageFails ==
  C12_ForeignStorage =>
    (last.out = "DictCooperationFailed" /\ space = last.pre)

C12_Witness ==
  /\ C12_ForeignStorage
  /\ last.op = "remove"
  /\ last.pre["n"].t = "tuple"
  /\ last.out = "DictCooperationFailed"

\* The last call was remove(obj), obj fitting, and obj was not stored where
\* the handle looks: under its key, and for DictCooperation its storekey.
C13_NotStored ==
  /\ LastFitting("remove")
  /\ IF scheme = "Dict"
     THEN ~Is(SlotOr(last.pre[last.key], last.storekey), last.arg)
     ELSE \A i \in DOMAIN StoredSeq(last.pre[last.key]) :
            ~Is(StoredSeq(last.pre[last.key])[i], last.arg)

StoredObjs(v) ==
  IF v.t = "obj" THEN {v}
  ELSE {v.items[i] : i \in DOMAIN v.items} \ {Absent}

\* The last call was add(obj) or remove(obj) with obj no collection and not
\* fitting the handle's class filter.
C14_NotFitting ==
  /\ last.op \in {"add", "remove"}
  /\ last.arg.t = "obj"
  /\ ~IsInstance(last.arg, last.cf)

\* C14: in every scheme add(obj) and remove(obj) with obj no collection and
\* not fitting the class filter raise ValueError and leave the object space
\* as it was; hence, starting from the empty object space with handles that
\* are all built with one class filter, every stored object fits that filter.
C14_FilterGuard ==
  /\ C14_NotFitting => (last.out = "ValueError" /\ space = last.pre)
  /\ only # {} =>
       \A k \in Keys : \A o \in StoredObjs(space[k]) : IsInstance(o, only)

C14_Witness ==
  /\ C14_NotFitting
  /\ only = {"F"}
  /\ last.arg = Obj("g1")
  /\ last.out = "ValueError"
  /\ Count(space["n"]) >= 2

\* C15: in every scheme an add or remove that fails (filter mismatch,
\* overwrite rejected, incompatible storage), the calls of the ordered
\* schemes that flatten a collection included, leaves the object space
\* exactly as it was before the call.
C15_FailureLeavesStore ==
  (/\ last.op \in {"add", "remove"}
   /\ last.out \in {"ValueError", "NoCooperationError",
                    "DictCooperationError", "DictCooperationFailed"})
    => space = last.pre

\* The objects of a collection argument, nested collections opened, in order.
RECURSIVE Leaves(_)
RECURSIVE LeavesOf(_)
LeavesOf(objs) ==
  IF objs = <<>> THEN <<>> ELSE Leaves(Head(objs)) \o LeavesOf(Tail(objs))

Leaves(v) == IF v.t \in {"tuple", "list"} THEN LeavesOf(v.items) ELSE <<v>>

\* One call op(obj) through a handle of the behaviour's ordered scheme.
OrderedCall(op, sp, key, cf, obj) ==
  CASE scheme = "Tuple" /\ op = "add" -> TupleCooperation_add(sp, key, cf, obj)
    [] scheme = "Tuple" /\ op = "remove" -> TupleCooperation_remove(sp, key, cf, obj)
    [] scheme = "List" /\ op = "add" -> ListCooperation_add(sp, key, cf, obj)
    [] scheme = "List" /\ op = "remove" -> ListCooperation_remove(sp, key, cf, obj)

\* The separate calls op(o1); ...; op(on) of a caller, which the first
\* exception ends.
RECURSIVE CallsInOrder(_, _, _, _, _)
CallsInOrder(op, sp, key, cf, objs) ==
  IF objs = <<>> THEN Ok(sp)
  ELSE LET r == OrderedCall(op, sp, key, cf, Head(objs))
       IN IF r.out # "ok" THEN r
          ELSE CallsInOrder(op, r.space, key, cf, Tail(objs))

C16_CollectionCall ==
  Ordered /\ last.op \in {"add", "remove"} /\ last.arg.t \in {"tuple", "list"}

\* C16: in the ordered schemes add and remove of a collection (a tuple for
\* TupleCooperation, a list for ListCooperation, nested or not) end with
\* the object space and the outcome of the calls on its objects one by one,
\* in order, nested collections opened.
C16_FlattenEquivalence ==
  C16_CollectionCall =>
    [space |-> space, out |-> last.out]
      = CallsInOrder(last.op, last.pre, last.key, last.cf, Leaves(last.arg))

C16_Witness ==
  /\ C16_CollectionCall
  /\ scheme = "List"
  /\ last.op = "remove"
  /\ last.arg = Lst(<<Obj("f2"), Lst(<<Obj("g1")>>)>>)
  /\ last.out = "ok"
  /\ Count(last.pre["n"]) = 3
  /\ Count(space["n"]) = 1

\* C17: in the ordered schemes iter yields exactly the stored objects that
\* fit the handle's class filter, in stored order: the bare stored value if
\* it fits, or every fitting element of the stored sequence; the elements
\* that do not fit are skipped, the object space is not written and nothing
\* is raised.
C17_IterFilters ==
  (Ordered /\ last.op = "iter") =>
    /\ last.out = "ok"
    /\ space = last.pre
    /\ last.got = SelectSeq(StoredSeq(space[last.key]),
                            LAMBDA o : IsInstance(o, last.cf))

C17_Witness ==
  /\ Ordered
  /\ last.op = "iter"
  /\ last.cf = {"F"}
  /\ StoredSeq(space["n"]) = <<Obj("f1"), Obj("g1"), Obj("f2")>>
  /\ last.got = <<Obj("f1"), Obj("f2")>>

\* C18: in every scheme iter raises nothing whatever value is stored under
\* the key -- a bare object of another writer, a sequence, a dict -- and
\* yields only objects that fit the class filter; DictCooperation.iter on a
\* key that holds a bare object raises nothing.
C18_IterNeverFails ==
  last.op = "iter" =>
    /\ last.out = "ok"
    /\ \A i \in DOMAIN last.got : IsInstance(last.got[i], last.cf)

\* What iter yields through the handle of the last call, in the object space
\* as it is.
C19_Yielded == Iter(space, last.key, last.storekey, last.cf)

\* C19: in every scheme and every reachable state contains(obj) is true
\* exactly when obj fits the class filter and one of the objects iter yields
\* is obj itself (so it is false for an obj that does not fit), and len is
\* the number of objects iter yields.
C19_ContainsAndLen ==
  /\ last.op = "contains" =>
       /\ last.out = "ok"
       /\ last.flag <=>
            (/\ IsInstance(last.arg, last.cf)
             /\ \E i \in DOMAIN C19_Yielded : Is(C19_Yielded[i], last.arg))
  /\ last.op = "len" =>
       (last.out = "ok" /\ last.num = Len(C19_Yielded))

C19_Witness ==
  /\ last.op = "contains"
  /\ last.flag
  /\ last.cf = {"F"}
  /\ Len(C19_Yielded) = 2
  /\ Is(C19_Yielded[2], last.arg)
  /\ ~Is(C19_Yielded[1], last.arg)
  /\ Count(space["n"]) = 3

\* C20: in every reachable state a NoCooperation handle and a
\* DictCooperation handle yield at most one object from iter, and their len
\* is at most 1.
C20_AtMostOne ==
  scheme \in {"No", "Dict"} =>
    /\ \A key \in BoundKeys, storekey \in HandleStoreKeys, cf \in Filters :
         Len(Iter(space, key, storekey, cf)) <= 1
    /\ last.op = "iter" => Len(last.got) <= 1
    /\ last.op = "len" => last.num <= 1

C20_Witness ==
  /\ scheme = "Dict"
  /\ last.op = "len"
  /\ last.num = 1
  /\ Count(space["n"]) = 2

(***************************************************************************)
(* C21..C30                                                                *)
(***************************************************************************)
\* What a handle with class filter cf yields after the calls op(o) on the
\* objects objs in order, when it yielded seq before them: add(o) puts o at
\* the end, remove(o) takes every o out, and the first object that does not
\* fit the filter ends the calls.
RECURSIVE C21_Expected(_, _, _, _)
C21_Expected(op, seq, objs, cf) ==
  IF objs = <<>> THEN seq
  ELSE IF ~IsInstance(Head(objs), cf) THEN seq
  ELSE IF op = "add"
  THEN C21_Expected(op, Append(seq, Head(objs)), Tail(objs), cf)
  ELSE C21_Expected(op, SelectSeq(seq, LAMBDA a : ~Is(a, Head(objs))),
                    Tail(objs), cf)

\* One add or remove through one of the two handles: the handle it went
\* through yields what it yielded before, changed by the call; the other
\* handle yields what it yielded before.
C21_Step ==
  (Ordered /\ last'.op \in {"add", "remove"}) =>
    \A c \in {{"F"}, {"G"}} :
      Iter(space', last'.key, "", c)
        = IF c = last'.cf
          THEN C21_Expected(last'.op, Iter(space, last'.key, "", c),
                            Leaves(last'.arg), c)
          ELSE Iter(space, last'.key, "", c)

\* C21: two callers using handles of the same ordered scheme on the same
\* key with the disjoint class filters F and G: after any interleaving of
\* their add and remove calls the F handle yields exactly the objects added
\* through it and not removed through it since, in insertion order,
\* whatever went through the G handle (and the G handle likewise).
C21_DisjointCallers == [][C21_Step]_vars

\* The drain loop of a caller through the handle (key, storekey, cf), from
\* the object space sp: "while the handle yields something: remove the
\* first object it yields".  It ends with the exception of the remove that
\* raised, as "stuck" when a remove did not lower the handle's len, and as
\* "ok" when the handle yields nothing more.
RECURSIVE C22_Drain(_, _, _, _)
C22_Drain(sp, key, storekey, cf) ==
  LET it == Iter(sp, key, storekey, cf)
  IN IF IterOut(sp, key) # "ok" THEN Raise(sp, IterOut(sp, key))
     ELSE IF it = <<>> THEN Ok(sp)
     ELSE LET r == SchemeCall("remove", sp, key, storekey, cf, it[1])
          IN IF r.out # "ok" THEN r
             ELSE IF Cooperation_len(Iter(r.space, key, storekey, cf))
                       >= Cooperation_len(it)
             THEN Raise(r.space, "stuck")
             ELSE C22_Drain(r.space, key, storekey, cf)

\* The key was absent and has since been filled by successful add(object)
\* calls only, all of them through handles that store where the handle
\* (key, storekey, cf) reads: the handle yields every stored object.
C22_FilledByAdds(key, storekey, cf) ==
  /\ run.valid
  /\ run.objs # <<>>
  /\ Has(space, key)
  /\ Cooperation_len(Iter(space, key, storekey, cf)) = Count(space[key])

\* C22: in every scheme, from every state reached through successful adds
\* (the ordered schemes with any number of adds, the same object more than
\* once included), the drain loop raises nothing, lowers len at every step
\* and ends with the key deleted from the object space.
C22_DrainTerminates ==
  \A key \in BoundKeys, storekey \in HandleStoreKeys, cf \in Filters :
    C22_FilledByAdds(key, storekey, cf) =>
      /\ C22_Drain(space, key, storekey, cf).out = "ok"
      /\ C22_Drain(space, key, storekey, cf).space = Del(space, key)

\* C23 as stated: with DictCooperation handles only, a dict stored under a
\* key has at least 2 entries.
C23_AtLeastTwoEntries ==
  scheme = "Dict" =>
    \A k \in Keys : space[k].t = "dict" => Count(space[k]) >= 2

\* C23, amended: with DictCooperation handles only, the value stored under
\* a key is always a dict with at least 1 entry; a dict with a single entry
\* is stored as a dict and never replaced by its bare object.  The first add
\* stores a dict of exactly one entry.
C23_AtLeastOneEntry ==
  scheme = "Dict" =>
    /\ \A k \in Keys :
         Has(space, k) => (space[k].t = "dict" /\ Count(space[k]) >= 1)
    /\ (LastFitting("add") /\ ~Has(last.pre, last.key) /\ last.out = "ok")
         => Count(space[last.key]) = 1

C23_Witness ==
  /\ scheme = "Dict"
  /\ LastFitting("remove")
  /\ last.out = "ok"
  /\ Count(last.pre["n"]) = 2
  /\ space["n"].t = "dict"
  /\ Count(space["n"]) = 1

\* The list twin of a value: a tuple, and every tuple nested in it, as the
\* list of the same elements; and the object space of the list twins.
RECURSIVE AsList(_)
RECURSIVE AsListEach(_)
AsListEach(s) ==
  IF s = <<>> THEN <<>> ELSE <<AsList(Head(s))>> \o AsListEach(Tail(s))

AsList(v) == IF v.t = "tuple" THEN Lst(AsListEach(v.items)) ELSE v

AsListSpace(sp) == [k \in Keys |-> AsList(sp[k])]

\* The last call of a TupleCooperation behaviour, made through the
\* ListCooperation handle of the same key and class filter on the twin of
\* the object space it started from.
C24_ListTwin ==
  IF last.op = "add"
  THEN ListCooperation_add(AsListSpace(last.pre), last.key, last.cf,
                           AsList(last.arg))
  ELSE ListCooperation_remove(AsListSpace(last.pre), last.key, last.cf,
                              AsList(last.arg))

\* C24: the same calls made against a TupleCooperation object space and a
\* ListCooperation object space, both empty at the start: every call ends
\* the same way in both, and after it both object spaces have the same
\* shape (absent, bare object, sequence of the same elements) and both
\* handles yield the same objects in the same order.
C24_OrderedVariantsAgree ==
  (scheme = "Tuple" /\ last.op \in {"add", "remove"}) =>
    /\ C24_ListTwin.out = last.out
    /\ C24_ListTwin.space = AsListSpace(space)
    /\ \A cf \in Filters :
         ListCooperation_iter(C24_ListTwin.space, last.key, cf)
           = TupleCooperation_iter(space, last.key, cf)

\* The object space that holds the entry of the handle's key and nothing
\* else.
C25_OwnEntry == Put(EmptySpace, handle.key, space[handle.key])

\* A step that assigns the handle's key leaves the other fields and the
\* object space alone.  A call through the handle leaves the handle's
\* fields alone, uses the handle's current key, leaves the entry of every
\* other key as it was, and ends as it would if the entry of its key were
\* the only one.
C25_Step ==
  IF handle' # handle
  THEN /\ handle'.cf = handle.cf
       /\ handle'.storekey = handle.storekey
       /\ space' = space
  ELSE /\ last'.key = handle.key
       /\ last'.cf = handle.cf
       /\ last'.storekey = handle.storekey
       /\ \A k \in Keys \ {handle.key} : space'[k] = space[k]
       /\ last'.op \in {"add", "remove"} =>
            LET r == SchemeCall(last'.op, C25_OwnEntry, handle.key,
                                handle.storekey, handle.cf, last'.arg)
            IN /\ last'.out = r.out
               /\ space'[handle.key] = r.space[handle.key]
       /\ last'.op = "iter" =>
            /\ space' = space
            /\ last'.got = Iter(C25_OwnEntry, handle.key, handle.storekey,
                                handle.cf)

\* C25: the handle is stateless and can be used for key after key: add,
\* remove and iter through a handle bound to key k leave the handle's
\* fields and the entry of every other key unchanged, and once the key
\* field is assigned k', the calls read and write the entry of k' only.
C25_HandleReuse == [][C25_Step]_vars

C25_Witness ==
  /\ handle.key = "m"
  /\ last.key = "m"
  /\ last.op = "remove"
  /\ last.out = "ok"
  /\ Has(last.pre, "m")
  /\ ~Has(space, "m")
  /\ Has(space, "n")

C27_AddThenRemove ==
  /\ scheme \in {"Tuple", "List", "Dict"}
  /\ last.op = "add" /\ last.out = "ok" /\ last.arg.t = "obj"
  /\ \A o \in StoredObjs(last.pre[last.key]) : ~Is(o, last.arg)
  /\ last'.op = "remove" /\ last'.arg = last.arg
  /\ last'.key = last.key /\ last'.storekey = last.storekey
  /\ IsInstance(last.arg, last'.cf)

C27_Step ==
  C27_AddThenRemove => (last'.out = "ok" /\ space' = last.pre)

\* C27: ordered schemes and DictCooperation, any reachable object space: a
\* successful add(o) of a fitting object o that is not stored under the key,
\* followed by remove(o), leaves the object space exactly as it was before
\* the add (same shape, same objects, same order).
C27_RoundTripAnywhere == [][C27_Step]_vars

\* C28: remove is idempotent in every scheme: in every reachable object
\* space, after remove(o) of a fitting object o has returned, a second
\* remove(o) through the same handle raises nothing and leaves the object
\* space as the first call left it.
C28_RemoveIdempotent ==
  (LastFitting("remove") /\ last.out = "ok") =>
    SchemeCall("remove", space, last.key, last.storekey, last.cf, last.arg)
      = Ok(space)

\* C29: in both ordered schemes add(obj) of a fitting object never fails,
\* in any reachable state, and raises the handle's len (same class filter)
\* by exactly 1, also when the very object is stored already: the
\* duplicate becomes one more element at the end.
C29_AddAlwaysAppends ==
  (Ordered /\ LastFitting("add")) =>
    /\ last.out = "ok"
    /\ Cooperation_len(Iter(space, last.key, "", last.cf))
         = Cooperation_len(Iter(last.pre, last.key, "", last.cf)) + 1
    /\ StoredSeq(space[last.key])
         = Append(StoredSeq(last.pre[last.key]), last.arg)

C29_Witness ==
  /\ Ordered
  /\ LastFitting("add")
  /\ last.cf = {"F"}
  /\ StoredSeq(last.pre["n"]) = <<Obj("f1"), Obj("g1")>>
  /\ last.arg = Obj("f1")
  /\ StoredSeq(space["n"]) = <<Obj("f1"), Obj("g1"), Obj("f1")>>

\* C30: stored sequences are flat: with TupleCooperation add and remove
\* calls whose arguments may be nested tuples, empty tuples included, the
\* value stored under a key is absent, a bare object that is no tuple, or a
\* tuple none of whose elements is a tuple, and add of an empty tuple
\* leaves the object space as it was; the same for ListCooperation with
\* lists.
C30_StoredFlat ==
  Ordered =>
    /\ \A k \in Keys :
         \/ space[k].t \in {"absent", "obj"}
         \/ /\ IsSeq(space[k])
            /\ \A i \in DOMAIN space[k].items : space[k].items[i].t = "obj"
    /\ (last.op = "add" /\ last.arg \in {Tup(<<>>), Lst(<<>>)})
         => (last.out = "ok" /\ space = last.pre)

C30_Witness ==
  /\ Ordered
  /\ last.op = "add"
  /\ last.out = "ok"
  /\ last.arg \in {Tup(<<Obj("f2"), Tup(<<Obj("g1")>>)>>),
                   Lst(<<Obj("f2"), Lst(<<Obj("g1")>>)>>)}
  /\ Has(last.pre, "n")
  /\ StoredSeq(space["n"])
       = StoredSeq(last.pre["n"]) \o <<Obj("f2"), Obj("g1")>>

====
